---- MODULE Spec2Model ----
(***************************************************************************)
(* A model of pyapollo's ApolloClient (src/pyapollo/apollo_client.py).     *)
(*                                                                         *)
(* The client's dicts (_cache, _cache_file, _notification_map) and the     *)
(* files of conf_dir are functions whose DOMAIN is the set of keys held.   *)
(* Two threads run the client's methods: Main (the caller of get_value,    *)
(* get_conf_file, start, stop) and the threads start() spawns on          *)
(* _listener, one per call of start().  Each thread has a call stack of frames; a frame holds the  *)
(* method's position (pc) and its locals.  A step of a thread is one       *)
(* access to shared state or one blocking HTTP exchange; statements that   *)
(* touch only the thread's locals are part of the step before them.  The   *)
(* config server is the environment: it owns a notification id per         *)
(* namespace and answers every request with any status the real server or  *)
(* the network can produce.                                                *)
(***************************************************************************)
EXTENDS Naturals, Integers, Sequences, FiniteSets, TLC

\* ---------------------------------------------------------------- bounds

\* Number of releases the server makes (over all namespaces).
MaxPublish == 1
\* Number of public calls Main makes on a client built without on_change.
MaxCalls == 2
\* Number of public calls Main makes on a client built with on_change.
MaxCallsCb == 1

\* ------------------------------------------------------------- constants

Main == "main"
\* The thread the first start() spawns, and the one a second start() spawns.
Listener == "listener"
Listener2 == "listener2"
Listeners == {Listener, Listener2}
Threads == {Main} \cup Listeners

\* The default key/value namespace and one file namespace.
Application == "application"
AppYaml == "app.yaml"
Namespaces == {Application, AppYaml}

\* Python's None, the caller-supplied default and the keys read.
NoneVal == "None"
DefaultVal == "default"
TimeoutKey == "timeout"
ContentKey == "content"
\* The blob an earlier run of the program left in conf_dir for app.yaml.
SavedBlob == "hello"

\* What a public call can raise: line 242's Exception, an exception of
\* requests.get, a KeyError of a dict lookup, an exception of the callback.
StatusError == "StatusError"
ConnectionError == "ConnectionError"
KeyError == "KeyError"
CallbackError == "CallbackError"

\* A Python dict: a function whose DOMAIN is the set of keys present.
EmptyDict == [k \in {} |-> ""]
Put(d, k, v) == [x \in (DOMAIN d) \cup {k} |-> IF x = k THEN v ELSE d[x]]
Pop(d, k) == [x \in (DOMAIN d) \ {k} |-> d[x]]

\* ----------------------------------------------------------------- state

VARIABLES
    cache,             \* self._cache: namespace -> snapshot (a dict key -> value)
    cache_file,        \* self._cache_file: namespace -> parsed blob
    notification_map,  \* self._notification_map: namespace -> notification id
    disk,              \* the files of conf_dir: namespace -> raw blob
    stopping,          \* self._stopping
    stopped,           \* self.stopped
    on_change_cb,      \* TRUE iff an on_change callback was given
    auto_failover,     \* self.auto_failover
    handlers,          \* TRUE once start() has installed the signal handlers
    spawned,           \* number of listener threads start() has started
    srv_id,            \* the server's current notification id per namespace
    stack,             \* per thread, its call stack (last element = running frame)
    ret,               \* per thread, the value the call it made last returned
    call,              \* the public call Main is making or has just finished
    calls              \* number of public calls Main has made

vars == <<cache, cache_file, notification_map, disk, stopping, stopped,
          on_change_cb, auto_failover, handlers, spawned, srv_id, stack, ret,
          call, calls>>

client == <<cache, cache_file, notification_map, disk, stopping, stopped>>
config == <<on_change_cb, auto_failover>>

\* ---------------------------------------------------------------- server

\* The blob of a file namespace at notification id n.
Blob(n) == IF n % 2 = 1 THEN "v1" ELSE "v2"

\* The configurations the server holds for ns at notification id n: the key
\* "timeout" is published, then removed, then published with another value.
Content(ns, n) ==
    IF ns = AppYaml THEN Put(EmptyDict, ContentKey, Blob(n))
    ELSE CASE n % 3 = 1 -> Put(EmptyDict, TimeoutKey, "30")
           [] n % 3 = 2 -> EmptyDict
           [] OTHER     -> Put(EmptyDict, TimeoutKey, "60")

\* The namespaces of a long-poll request whose id differs from the server's.
Stale(req) == {ns \in DOMAIN req : req[ns] # srv_id[ns]}

\* The bodies a 200 long-poll answer can carry: stale namespaces the server
\* knows, each once, with the server's id, in any order.
ChangeSets(req) ==
    {<< <<ns, srv_id[ns]>> >> : ns \in Stale(req)}
    \cup {<< <<p[1], srv_id[p[1]]>>, <<p[2], srv_id[p[2]]>> >> :
              p \in {q \in Stale(req) \X Stale(req) : q[1] # q[2]}}

\* ---------------------------------------------------------------- frames

\* A frame of _long_poll also lists in done the entries of the answer it has
\* applied so far, each as <<namespace, id, whether its fetch replaced the
\* snapshot>>.
Frame(pc, ns, key, val, flag, req, todo) ==
    [pc |-> pc, ns |-> ns, key |-> key, val |-> val, flag |-> flag,
     req |-> req, todo |-> todo, done |-> <<>>]

F_get_value(key, default_val, ns, auto_fetch) ==
    Frame("gv_map", ns, key, default_val, auto_fetch, EmptyDict, <<>>)
F_get_conf_file(ns, failover) ==
    Frame("cf_chk", ns, "", NoneVal, failover, EmptyDict, <<>>)
F_cached_http_get(key, default_val, ns) ==
    Frame("ch_http", ns, key, default_val, FALSE, EmptyDict, <<>>)
F_uncached_http_get(ns) ==
    Frame("uh_http", ns, "", NoneVal, FALSE, EmptyDict, <<>>)
F_long_poll == Frame("lp_req", "", "", NoneVal, FALSE, EmptyDict, <<>>)
F_listener == Frame("ls_top", "", "", NoneVal, FALSE, EmptyDict, <<>>)
F_start == Frame("st_chk", "", "", NoneVal, FALSE, EmptyDict, <<>>)

Running(t) == stack[t] # <<>>
Top(t) == stack[t][Len(stack[t])]
Below(t) == SubSeq(stack[t], 1, Len(stack[t]) - 1)
At(t, pc) == Running(t) /\ Top(t).pc = pc
\* Thread t runs the public method itself, not a call made by it.
Outermost(t) == t = Main /\ Len(stack[t]) = 1

\* The record of Main's public call: the method, its namespace and failover
\* argument, whether the namespace was absent from the cache when the call
\* looked, the number of _long_poll invocations made on behalf of the call,
\* whether every remote exchange made for it failed, and how it ended
\* (val: the value returned or the exception raised).
NoCall ==
    [op |-> "none", ns |-> "", flag |-> FALSE, cold |-> FALSE, polls |-> 0,
     down |-> TRUE, outcome |-> "none", val |-> NoneVal]
NewCall(op, ns, flag, cold) ==
    [op |-> op, ns |-> ns, flag |-> flag, cold |-> cold, polls |-> 0,
     down |-> TRUE, outcome |-> "running", val |-> NoneVal]

\* The call record after thread t made a remote exchange that succeeded (ok)
\* or failed.
Seen(t, ok) == IF t = Main THEN [call EXCEPT !.down = @ /\ ~ok] ELSE call

\* Thread t moves on in its running frame, which becomes f.
Goto(t, f) == stack' = [stack EXCEPT ![t] = Below(t) \o <<f>>]

\* Thread t leaves its running frame as f and calls g.
Invoke(t, f, g) == stack' = [stack EXCEPT ![t] = Below(t) \o <<f, g>>]

\* Thread t returns v from its running frame; c is Main's call record so far.
Return(t, v, c) ==
    /\ stack' = [stack EXCEPT ![t] = Below(t)]
    /\ IF Outermost(t)
       THEN /\ call' = [c EXCEPT !.outcome = "ret", !.val = v]
            /\ ret' = [ret EXCEPT ![t] = NoneVal]
       ELSE /\ call' = c
            /\ ret' = [ret EXCEPT ![t] = v]

\* Thread t raises e: the exception unwinds every frame up to the try block
\* of _listener (lines 249-253), which binds it to e, or out of the public
\* call on Main.
Raise(t, e, c) ==
    /\ ret' = [ret EXCEPT ![t] = NoneVal]
    /\ IF t \in Listeners
       THEN /\ stack' = [stack EXCEPT ![t] =
                            <<[F_listener EXCEPT !.pc = "ls_except", !.val = e]>>]
            /\ call' = c
       ELSE /\ stack' = [stack EXCEPT ![t] = <<>>]
            /\ call' = [c EXCEPT !.outcome = "raise", !.val = e]

\* ------------------------------------------------------------------ init

\* __init__, lines 15-46, with the default notify_namespaces and
\* auto_failover, with or without on_change
Init ==
    /\ cache = EmptyDict
    /\ cache_file = EmptyDict
    /\ notification_map = Put(EmptyDict, Application, -1)
    /\ disk = Put(EmptyDict, AppYaml, SavedBlob)
    /\ stopping = FALSE
    /\ stopped = FALSE
    /\ on_change_cb \in BOOLEAN
    /\ auto_failover = TRUE
    /\ handlers = FALSE
    /\ spawned = 0
    /\ srv_id = [ns \in Namespaces |-> 1]
    /\ stack = [t \in Threads |-> <<>>]
    /\ ret = [t \in Threads |-> NoneVal]
    /\ call = NoCall
    /\ calls = 0

\* ------------------------------------------------------------- get_value

\* lines 67-70
gv_map(t) ==
    /\ At(t, "gv_map")
    /\ notification_map' =
           IF Top(t).ns \notin DOMAIN notification_map
           THEN Put(notification_map, Top(t).ns, -1)
           ELSE notification_map
    /\ Goto(t, [Top(t) EXCEPT !.pc = "gv_chk"])
    /\ UNCHANGED <<cache, cache_file, disk, stopping, stopped, config,
                   handlers, spawned, srv_id, ret, call, calls>>

\* line 72
gv_chk(t) ==
    /\ At(t, "gv_chk")
    /\ Goto(t, [Top(t) EXCEPT !.pc =
                   IF Top(t).ns \notin DOMAIN cache THEN "gv_init" ELSE "gv_test"])
    /\ call' = IF Outermost(t)
               THEN [call EXCEPT !.cold = Top(t).ns \notin DOMAIN cache]
               ELSE call
    /\ UNCHANGED <<client, config, handlers, spawned, srv_id, ret, calls>>

\* lines 73-76
gv_init(t) ==
    /\ At(t, "gv_init")
    /\ cache' = Put(cache, Top(t).ns, EmptyDict)
    /\ Invoke(t, [Top(t) EXCEPT !.pc = "gv_test"], F_long_poll)
    /\ UNCHANGED <<cache_file, notification_map, disk, stopping, stopped,
                   config, handlers, spawned, srv_id, ret, call, calls>>

\* lines 78, 80-84.  On a hit the frame keeps in val the value the membership
\* test saw.  The value of the call at line 82 is returned as it is, so
\* _cached_http_get takes the place of this frame.
gv_test(t) ==
    /\ At(t, "gv_test")
    /\ IF Top(t).key \in DOMAIN cache[Top(t).ns]
       THEN /\ Goto(t, [Top(t) EXCEPT !.pc = "gv_read",
                                      !.val = cache[Top(t).ns][Top(t).key]])
            /\ UNCHANGED <<ret, call>>
       ELSE IF Top(t).flag
       THEN /\ Goto(t, F_cached_http_get(Top(t).key, Top(t).val, Top(t).ns))
            /\ UNCHANGED <<ret, call>>
       ELSE Return(t, Top(t).val, call)
    /\ UNCHANGED <<client, config, handlers, spawned, srv_id, calls>>

\* line 79: the second lookup of self._cache[namespace]; KeyError when the
\* snapshot found now does not hold the key.
gv_read(t) ==
    /\ At(t, "gv_read")
    /\ IF Top(t).key \in DOMAIN cache[Top(t).ns]
       THEN Return(t, cache[Top(t).ns][Top(t).key], call)
       ELSE Raise(t, KeyError, call)
    /\ UNCHANGED <<client, config, handlers, spawned, srv_id, calls>>

\* --------------------------------------------------------------- disk

\* _get_conf_from_disk, lines 118-124: the file's content, or None when the
\* file is missing or cannot be read (ok = FALSE).
get_conf_from_disk(ns, ok) ==
    IF ok /\ ns \in DOMAIN disk THEN disk[ns] ELSE NoneVal

\* _save_conf_to_disk, lines 110-116: the files after the write; a failed
\* write is logged and leaves them as they were.
save_conf_to_disk(ns, data, ok) ==
    IF ok THEN Put(disk, ns, data) ELSE disk

\* os.path.splitext(namespace)[1], line 128
Ext(ns) == IF ns = AppYaml THEN ".yaml" ELSE ""

\* _loads, lines 126-137
loads(ns, value) ==
    IF Ext(ns) = ".yaml" THEN "yaml(" \o value \o ")"
    ELSE IF Ext(ns) = ".json" THEN "json(" \o value \o ")"
    ELSE value

\* --------------------------------------------------------- get_conf_file

\* line 89
cf_chk(t) ==
    /\ At(t, "cf_chk")
    /\ Goto(t, [Top(t) EXCEPT !.pc =
                   IF Top(t).ns \in DOMAIN cache_file THEN "cf_hit" ELSE "cf_disk"])
    /\ UNCHANGED <<client, config, handlers, spawned, srv_id, ret, call, calls>>

\* line 90: the second lookup of self._cache_file; KeyError when the entry
\* was evicted since line 89.
cf_hit(t) ==
    /\ At(t, "cf_hit")
    /\ IF Top(t).ns \in DOMAIN cache_file
       THEN Return(t, cache_file[Top(t).ns], call)
       ELSE Raise(t, KeyError, call)
    /\ UNCHANGED <<client, config, handlers, spawned, srv_id, calls>>

\* lines 93-98: the default is read from disk, then get_value is called
cf_disk(t) ==
    /\ At(t, "cf_disk")
    /\ \E ok \in BOOLEAN :
         Invoke(t, [Top(t) EXCEPT !.pc = "cf_value"],
                F_get_value(ContentKey,
                            IF auto_failover /\ Top(t).flag
                            THEN get_conf_from_disk(Top(t).ns, ok)
                            ELSE NoneVal,
                            Top(t).ns, TRUE))
    /\ UNCHANGED <<client, config, handlers, spawned, srv_id, ret, call, calls>>

\* lines 100-104
cf_value(t) ==
    /\ At(t, "cf_value")
    /\ IF ret[t] = NoneVal
       THEN /\ Return(t, NoneVal, call)
            /\ disk' = disk
       ELSE /\ Goto(t, [Top(t) EXCEPT !.pc = "cf_store", !.val = ret[t]])
            /\ \E ok \in BOOLEAN :
                 disk' = IF auto_failover /\ Top(t).flag
                         THEN save_conf_to_disk(Top(t).ns, ret[t], ok)
                         ELSE disk
            /\ UNCHANGED <<ret, call>>
    /\ UNCHANGED <<cache, cache_file, notification_map, stopping, stopped,
                   config, handlers, spawned, srv_id, calls>>

\* line 107
cf_store(t) ==
    /\ At(t, "cf_store")
    /\ cache_file' = Put(cache_file, Top(t).ns, loads(Top(t).ns, Top(t).val))
    /\ Goto(t, [Top(t) EXCEPT !.pc = "cf_ret"])
    /\ UNCHANGED <<cache, notification_map, disk, stopping, stopped, config,
                   handlers, spawned, srv_id, ret, call, calls>>

\* line 108: self._cache_file[namespace] is looked up again
cf_ret(t) ==
    /\ At(t, "cf_ret")
    /\ IF Top(t).ns \in DOMAIN cache_file
       THEN Return(t, cache_file[Top(t).ns], call)
       ELSE Raise(t, KeyError, call)
    /\ UNCHANGED <<client, config, handlers, spawned, srv_id, calls>>

\* ------------------------------------------------------ _cached_http_get

\* The answers to the file-content fetch: r.ok, not r.ok, or requests.get
\* raising (connection failure).
CachedStatuses == {"ok", "notok", "exc"}

\* lines 172-174: _cache after the answer
cached_cache(ns, status) ==
    IF status = "ok" THEN Put(cache, ns, Content(ns, srv_id[ns])) ELSE cache

\* lines 175-178: _cache_file after the answer
cached_cache_file(ns, status) ==
    IF status = "ok" THEN Pop(cache_file, ns) ELSE cache_file

\* lines 173, 181-186: the value returned (data is the answer's body, or the
\* snapshot held when the answer is not ok)
cached_result(key, default_val, ns, status) ==
    LET data == IF status = "ok" THEN Content(ns, srv_id[ns]) ELSE cache[ns]
    IN  IF key \in DOMAIN data THEN data[key] ELSE default_val

\* lines 167-186 for one answer
ch_answer(t, status) ==
    /\ At(t, "ch_http")
    /\ cache' = cached_cache(Top(t).ns, status)
    /\ cache_file' = cached_cache_file(Top(t).ns, status)
    /\ IF status = "exc"
       THEN Raise(t, ConnectionError, Seen(t, FALSE))
       ELSE Return(t, cached_result(Top(t).key, Top(t).val, Top(t).ns, status),
                   Seen(t, status = "ok"))
    /\ UNCHANGED <<notification_map, disk, stopping, stopped, config, handlers,
                   spawned, srv_id, calls>>

ch_http(t) == \E status \in CachedStatuses : ch_answer(t, status)

\* ---------------------------------------------------- _uncached_http_get

\* The answers to the key/value fetch: 200, another status, or requests.get
\* raising.
UncachedStatuses == {"200", "err", "exc"}

\* A fetch that stores an empty snapshot when the answer is not 200.
uncached_cache_clear(ns, status) ==
    IF status = "200" THEN Put(cache, ns, Content(ns, srv_id[ns]))
    ELSE Put(cache, ns, EmptyDict)

\* lines 193-195: _cache after the answer
uncached_cache(ns, status) ==
    IF status = "200" THEN Put(cache, ns, Content(ns, srv_id[ns])) ELSE cache

\* A fetch that leaves the parsed blob in place.
uncached_cache_file_keep(ns, status) == cache_file

\* lines 196-199: _cache_file after the answer
uncached_cache_file(ns, status) ==
    IF status = "200" THEN Pop(cache_file, ns) ELSE cache_file

\* Thread t returns None from _uncached_http_get to _long_poll, whose frame
\* notes in flag whether the fetch replaced the snapshot (the code keeps no
\* such note: line 237 runs whatever the fetch did).
Fetched(t, replaced) ==
    /\ stack' = [stack EXCEPT ![t] =
                     SubSeq(@, 1, Len(@) - 2)
                         \o <<[@[Len(@) - 1] EXCEPT !.flag = replaced]>>]
    /\ ret' = [ret EXCEPT ![t] = NoneVal]

\* lines 188-200 for one answer
uh_answer(t, status) ==
    /\ At(t, "uh_http")
    /\ cache' = uncached_cache(Top(t).ns, status)
    /\ cache_file' = uncached_cache_file(Top(t).ns, status)
    /\ IF status = "exc"
       THEN Raise(t, ConnectionError, Seen(t, FALSE))
       ELSE /\ Fetched(t, status = "200")
            /\ call' = Seen(t, status = "200")
    /\ UNCHANGED <<notification_map, disk, stopping, stopped, config, handlers,
                   spawned, srv_id, calls>>

uh_http(t) == \E status \in UncachedStatuses : uh_answer(t, status)

\* ------------------------------------------------------------ _long_poll

\* The answers to the long poll: 304, 200, another status (line 242 raises),
\* or requests.get raising (connection failure, timeout).
PollStatuses == {"304", "200", "err", "exc"}

\* lines 207-214: the request carries the ids of the notification map
poll_request == notification_map

lp_req(t) ==
    /\ At(t, "lp_req")
    /\ Goto(t, [Top(t) EXCEPT !.pc = "lp_wait", !.req = poll_request])
    /\ call' = IF t = Main THEN [call EXCEPT !.polls = @ + 1] ELSE call
    /\ UNCHANGED <<client, config, handlers, spawned, srv_id, ret, calls>>

\* A poll that forgets every id when the answer is an error.
poll_nochange_reset(status) ==
    <<IF status = "304" THEN notification_map
      ELSE [ns \in DOMAIN notification_map |-> -1],
      cache, cache_file>>

\* lines 225-228, 241-244: notification map, cache and parsed-file cache
\* after an answer that carries no change set
poll_nochange(status) == <<notification_map, cache, cache_file>>

\* lines 232-236: the loop over the entries left of the answer; the first
\* one is fetched, and with none left _long_poll returns
Apply(t, entries) ==
    IF entries = <<>>
    THEN stack' = [stack EXCEPT ![t] = Below(t)]
    ELSE Invoke(t, [Top(t) EXCEPT !.pc = "lp_setid", !.todo = entries,
                                  !.ns = Head(entries)[1], !.flag = FALSE,
                                  !.done = IF Top(t).pc = "lp_wait" THEN <<>>
                                           ELSE Append(@, <<Top(t).ns,
                                                            Head(Top(t).todo)[2],
                                                            Top(t).flag>>)],
                F_uncached_http_get(Head(entries)[1]))

\* lines 216-231, 241-244 for one answer
lp_answer(t, status) ==
    /\ At(t, "lp_wait")
    /\ IF status = "200"
       THEN /\ \E body \in ChangeSets(Top(t).req) : Apply(t, body)
            /\ call' = Seen(t, TRUE)
            /\ UNCHANGED <<notification_map, cache, cache_file, ret>>
       ELSE /\ notification_map' = poll_nochange(status)[1]
            /\ cache' = poll_nochange(status)[2]
            /\ cache_file' = poll_nochange(status)[3]
            /\ IF status = "304"
               THEN Return(t, NoneVal, Seen(t, TRUE))
               ELSE Raise(t, IF status = "err" THEN StatusError ELSE ConnectionError,
                          Seen(t, FALSE))
    /\ UNCHANGED <<disk, stopping, stopped, config, handlers, spawned, srv_id,
                   calls>>

lp_wait(t) == \E status \in PollStatuses : lp_answer(t, status)

\* An adoption that never lowers the id held.
adopt_if_newer(ns, nid) ==
    IF ns \in DOMAIN notification_map /\ notification_map[ns] > nid
    THEN notification_map
    ELSE Put(notification_map, ns, nid)

\* line 237: the notification map after the entry (ns, nid)
adopt(ns, nid) == Put(notification_map, ns, nid)

\* lines 237-240: the id is stored; with a callback its second argument,
\* self.get_conf_file(namespace=ns), is evaluated next
lp_setid(t) ==
    /\ At(t, "lp_setid")
    /\ notification_map' = adopt(Head(Top(t).todo)[1], Head(Top(t).todo)[2])
    /\ IF on_change_cb
       THEN Invoke(t, [Top(t) EXCEPT !.pc = "lp_cbcall"],
                   F_get_conf_file(Top(t).ns, TRUE))
       ELSE Apply(t, Tail(Top(t).todo))
    /\ UNCHANGED <<cache, cache_file, disk, stopping, stopped, config,
                   handlers, spawned, srv_id, ret, call, calls>>

\* line 240: the user's callback runs; it returns or raises
lp_cbcall(t) ==
    /\ At(t, "lp_cbcall")
    /\ \E raises \in BOOLEAN :
         IF raises
         THEN Raise(t, CallbackError, call)
         ELSE /\ Apply(t, Tail(Top(t).todo))
              /\ ret' = [ret EXCEPT ![t] = NoneVal]
              /\ call' = call
    /\ UNCHANGED <<client, config, handlers, spawned, srv_id, calls>>

\* ------------------------------------------------------------- _listener

\* A loop that never looks at the stop flag.
loop_exits_never(flag) == FALSE

\* line 248: whether the loop test ends the loop
loop_exits(flag) == flag

\* lines 248-250, 255-256: the loop test, then either a cycle (whose return
\* leads back to the test) or the exit
ls_top(t) ==
    /\ At(t, "ls_top")
    /\ IF loop_exits(stopping)
       THEN /\ stopped' = TRUE
            /\ stack' = [stack EXCEPT ![t] = <<>>]
       ELSE /\ Invoke(t, Top(t), F_long_poll)
            /\ stopped' = stopped
    /\ UNCHANGED <<cache, cache_file, notification_map, disk, stopping,
                   config, handlers, spawned, srv_id, ret, call, calls>>

\* A handler that lets the exception end the thread.
ls_except_fatal(t) ==
    /\ At(t, "ls_except")
    /\ stack' = [stack EXCEPT ![t] = <<>>]
    /\ UNCHANGED <<client, config, handlers, spawned, srv_id, ret, call, calls>>

\* lines 251-253: the exception is logged, the loop sleeps 3 s and goes on
\* to the loop test
ls_except(t) ==
    /\ At(t, "ls_except")
    /\ Goto(t, F_listener)
    /\ UNCHANGED <<client, config, handlers, spawned, srv_id, ret, call, calls>>

\* ----------------------------------------------------------- start, stop

\* line 147: whether start() makes its blocking long poll
start_polls == Cardinality(DOMAIN cache) = 0

\* lines 147-148
st_chk(t) ==
    /\ At(t, "st_chk")
    /\ IF start_polls
       THEN Invoke(t, [Top(t) EXCEPT !.pc = "st_spawn"], F_long_poll)
       ELSE Goto(t, [Top(t) EXCEPT !.pc = "st_spawn"])
    /\ UNCHANGED <<client, config, handlers, spawned, srv_id, ret, call, calls>>

\* line 160: the thread a call of start() creates
new_thread == IF spawned = 0 THEN Listener ELSE Listener2

\* lines 154-161: the signal handlers are installed and a new listener
\* thread is started; start() returns
st_spawn(t) ==
    /\ At(t, "st_spawn")
    /\ handlers' = TRUE
    /\ spawned' = spawned + 1
    /\ stack' = [stack EXCEPT ![t] = Below(t), ![new_thread] = <<F_listener>>]
    /\ ret' = [ret EXCEPT ![t] = NoneVal]
    /\ call' = [call EXCEPT !.outcome = "ret", !.val = NoneVal]
    /\ UNCHANGED <<client, config, srv_id, calls>>

\* _signal_handler, lines 202-204: SIGINT, SIGTERM or SIGABRT arrives
signal_handler ==
    /\ handlers
    /\ ~stopping
    /\ stopping' = TRUE
    /\ UNCHANGED <<cache, cache_file, notification_map, disk, stopped, config,
                   handlers, spawned, srv_id, stack, ret, call, calls>>

\* ------------------------------------------------------------ the caller

\* Main is between two public calls and has calls left to make.
CanCall ==
    /\ ~Running(Main)
    /\ calls < (IF on_change_cb THEN MaxCallsCb ELSE MaxCalls)

\* get_value("timeout", "default", namespace=ns)
CallGetValue ==
    /\ CanCall
    /\ \E ns \in Namespaces :
         /\ stack' = [stack EXCEPT ![Main] =
                          <<F_get_value(TimeoutKey, DefaultVal, ns, FALSE)>>]
         /\ call' = NewCall("get_value", ns, FALSE, FALSE)
    /\ calls' = calls + 1
    /\ UNCHANGED <<client, config, handlers, spawned, srv_id, ret>>

\* get_conf_file("app.yaml", auto_failover=failover)
CallGetConfFile ==
    /\ CanCall
    /\ \E failover \in BOOLEAN :
         /\ stack' = [stack EXCEPT ![Main] = <<F_get_conf_file(AppYaml, failover)>>]
         /\ call' = NewCall("get_conf_file", AppYaml, failover,
                            AppYaml \notin DOMAIN cache
                                /\ AppYaml \notin DOMAIN cache_file)
    /\ calls' = calls + 1
    /\ UNCHANGED <<client, config, handlers, spawned, srv_id, ret>>

\* start(), whether or not it was called before (each call has a thread
\* to spawn)
CallStart ==
    /\ CanCall
    /\ spawned < Cardinality(Listeners)
    /\ stack' = [stack EXCEPT ![Main] = <<F_start>>]
    /\ call' = NewCall("start", "", FALSE, FALSE)
    /\ calls' = calls + 1
    /\ UNCHANGED <<client, config, handlers, spawned, srv_id, ret>>

\* stop(), lines 163-165
CallStop ==
    /\ CanCall
    /\ stopping' = TRUE
    /\ call' = [NewCall("stop", "", FALSE, FALSE) EXCEPT !.outcome = "ret"]
    /\ calls' = calls + 1
    /\ UNCHANGED <<cache, cache_file, notification_map, disk, stopped, config,
                   handlers, spawned, srv_id, stack, ret>>

\* ---------------------------------------------------- the server's steps

\* A release of namespace ns on the server: its notification id grows.
ServerPublish ==
    /\ srv_id[Application] + srv_id[AppYaml] < 2 + MaxPublish
    /\ \E ns \in Namespaces : srv_id' = [srv_id EXCEPT ![ns] = @ + 1]
    /\ UNCHANGED <<client, config, handlers, spawned, stack, ret, call, calls>>

\* --------------------------------------------------------- specification

Step(t) ==
    \/ gv_map(t) \/ gv_chk(t) \/ gv_init(t) \/ gv_test(t) \/ gv_read(t)
    \/ cf_chk(t) \/ cf_hit(t) \/ cf_disk(t) \/ cf_value(t) \/ cf_store(t)
    \/ cf_ret(t)
    \/ ch_http(t) \/ uh_http(t)
    \/ lp_req(t) \/ lp_wait(t) \/ lp_setid(t) \/ lp_cbcall(t)
    \/ ls_top(t) \/ ls_except(t)
    \/ st_chk(t) \/ st_spawn(t)

Next ==
    \/ \E t \in Threads : Step(t)
    \/ CallGetValue \/ CallGetConfFile \/ CallStart \/ CallStop
    \/ signal_handler
    \/ ServerPublish

Spec == Init /\ [][Next]_vars

\* Every started thread keeps running: a listener that can take a step
\* eventually takes one (requests.get returns within the timeout, sleep(3)
\* ends).
FairSpec == Spec /\ \A l \in Listeners : WF_vars(Step(l))

\* ================================================================ claims

\* Thread t takes the step.
Stepped(t) == stack'[t] # stack[t]
\* The running frame of thread t after the step.
TopAfter(t) == stack'[t][Len(stack'[t])]

\* ---- C1
\* C1: get_value and get_conf_file never raise because the server is
\* unavailable: no public read ends with the exception of a failed status or
\* of a failed connection.
C1_ReadsNeverRaiseOnOutage ==
    (call.op \in {"get_value", "get_conf_file"} /\ call.outcome = "raise")
        => call.val \notin {StatusError, ConnectionError}

\* ---- C2
\* C2: a get_value that finds its namespace absent from the cache makes
\* exactly one _long_poll before it returns, with or without a callback, and
\* the namespace is in the cache afterwards.
C2_ColdReadPollsOnce ==
    (call.op = "get_value" /\ call.cold /\ call.outcome = "ret")
        => (call.polls = 1 /\ call.ns \in DOMAIN cache)

\* ---- C3
\* C3: the value read of a get_value call (line 79) sees the snapshot its
\* membership test (line 78) saw: the key is there and has the value tested.
C3_ReadSeesOneSnapshot ==
    [][\A t \in Threads :
          (At(t, "gv_read") /\ Stepped(t))
              => /\ Top(t).key \in DOMAIN cache[Top(t).ns]
                 /\ cache[Top(t).ns][Top(t).key] = Top(t).val]_vars

\* ---- C4
\* C4: a long poll that ends without a change set (304, or an error that
\* unwinds _long_poll) leaves the notification map, the cache and the
\* parsed-file cache as they were.
C4_PollWithoutChangeSetMutatesNothing ==
    [][\A t \in Threads :
          (At(t, "lp_wait") /\ Stepped(t) /\ Len(stack'[t]) < Len(stack[t]))
              => UNCHANGED <<notification_map, cache, cache_file>>]_vars

\* A read raised on a failed long poll while the snapshot and the id of
\* "application", obtained by an earlier read, are still held.
C4_Witness ==
    /\ call.op = "get_value" /\ call.outcome = "raise" /\ call.val = StatusError
    /\ Application \in DOMAIN cache
    /\ cache[Application] = Content(Application, 1)
    /\ notification_map[Application] = 1

\* ---- C5
\* C5: the step that processes the entry (ns, id) leaves exactly id in the
\* notification map for ns, whatever it held, and a long-poll request carries
\* the ids the notification map holds when the request is built.
C5_SequenceAdoption ==
    [][\A t \in Threads :
          /\ (At(t, "lp_setid") /\ Stepped(t))
                 => /\ Head(Top(t).todo)[1] \in DOMAIN notification_map'
                    /\ notification_map'[Head(Top(t).todo)[1]] = Head(Top(t).todo)[2]
          /\ (At(t, "lp_req") /\ Stepped(t))
                 => TopAfter(t).req = notification_map]_vars

\* A request in flight carries for "application" the id adopted from the
\* server.
C5_Witness ==
    \E t \in Threads :
        /\ At(t, "lp_wait")
        /\ Application \in DOMAIN Top(t).req
        /\ Top(t).req[Application] = srv_id[Application]
        /\ notification_map[Application] = srv_id[Application]

\* ---- C6
\* A fetch answered with a failure leaves the cache and the parsed-file
\* cache as they were.
FailedFetchKeeps ==
    \A t \in Threads :
        /\ \A s \in {"err", "exc"} :
               uh_answer(t, s) => UNCHANGED <<cache, cache_file>>
        /\ \A s \in {"notok", "exc"} :
               ch_answer(t, s) => UNCHANGED <<cache, cache_file>>

\* C6 as stated: a failed fetch leaves snapshot and parsed-file entry as they
\* were, and a snapshot only ever changes into the body of one successful
\* response.
C6_OnlySuccessfulResponsesChangeSnapshots ==
    [][/\ FailedFetchKeeps
       /\ \A ns \in DOMAIN cache :
              cache'[ns] # cache[ns] => cache'[ns] = Content(ns, srv_id[ns])]_vars

\* C6 as amended: a failed fetch leaves snapshot and parsed-file entry as
\* they were, and a snapshot only ever changes into the body of one
\* successful response or into the empty snapshot get_value writes at line 73
\* for a namespace it found absent at line 72.
C6_FailedFetchKeepsSnapshot ==
    [][/\ FailedFetchKeeps
       /\ \A ns \in DOMAIN cache :
              cache'[ns] # cache[ns]
                  => \/ cache'[ns] = Content(ns, srv_id[ns])
                     \/ /\ cache'[ns] = EmptyDict
                        /\ \E t \in Threads :
                               At(t, "gv_init") /\ Top(t).ns = ns /\ Stepped(t)]_vars

\* The entry ("application", 2) was processed and the snapshot is still the
\* one of id 1: the fetch of that entry failed and left it.
C6_Witness ==
    /\ Application \in DOMAIN cache
    /\ notification_map[Application] = 2
    /\ cache[Application] = Content(Application, 1)

\* ---- C7
\* C7: with failover on, a blob on disk, nothing cached for the namespace
\* and every remote exchange failing, get_conf_file returns the parsed blob.
C7_DiskFailover ==
    (/\ call.op = "get_conf_file" /\ call.outcome \in {"ret", "raise"}
     /\ auto_failover /\ call.flag
     /\ call.cold /\ call.down
     /\ call.ns \in DOMAIN disk)
        => (call.outcome = "ret" /\ call.val = loads(call.ns, disk[call.ns]))

C9_StopOrdering ==
    [][/\ \A l \in Listeners :
              /\ Len(stack[l]) > 1
                     => /\ stack'[l] # <<>>
                        /\ Stepped(l) => stopped' = stopped
              /\ (At(l, "ls_top") /\ stopping /\ Stepped(l))
                     => (stopped' /\ stack'[l] = <<>>)
       /\ stopped' # stopped
              => /\ stopped'
                 /\ \E l \in Listeners :
                        At(l, "ls_top") /\ stopping /\ Stepped(l)]_vars

\* A stop was requested during a cycle of the listener, which is applying an
\* entry of the answer.
C9_Witness ==
    /\ stopping /\ ~stopped
    /\ At(Listener, "lp_setid")
    /\ Top(Listener).ns \in DOMAIN cache
    /\ ~Running(Listener2)

\* ---- C10
\* C10: start() makes one synchronous long poll before it returns, whatever
\* reads came before it.
C10_StartSyncsOnce ==
    (call.op = "start" /\ call.outcome = "ret") => call.polls = 1

\* ---- C11
\* C11: stopped is never true before a stop was requested and never goes
\* back to false; once it is true no background loop makes a further poll or
\* changes the cache or the notification map; and once a stop was requested
\* on a started client the flag eventually becomes true.
C11_StoppedIsTerminal ==
    /\ [](stopped => stopping)
    /\ [][stopped
             => /\ stopped'
                /\ \A l \in Listeners :
                       Stepped(l)
                           => /\ ~At(l, "lp_req") /\ ~At(l, "lp_wait")
                              /\ UNCHANGED <<cache, notification_map>>]_vars
    /\ (stopping /\ spawned > 0) ~> stopped

\* ---- C12
\* C12: a long poll of a background loop that fails leaves the loop alive in
\* its exception handler, which leads back to the loop test; the loop test
\* that finds no stop flag polls again; and a listener thread ends only at
\* the loop test, with the stop flag set.
C12_PollFailureNotFatal ==
    [][\A l \in Listeners :
          /\ (lp_answer(l, "err") \/ lp_answer(l, "exc"))
                 => /\ Len(stack'[l]) = 1
                    /\ stack'[l][1].pc = "ls_except"
                    /\ stopped' = stopped
          /\ (At(l, "ls_except") /\ Stepped(l)) => stack'[l] = <<F_listener>>
          /\ (At(l, "ls_top") /\ ~stopping /\ Stepped(l))
                 => stack'[l] = <<F_listener, F_long_poll>>
          /\ (Running(l) /\ stack'[l] = <<>>)
                 => (At(l, "ls_top") /\ stopping)]_vars

\* The first listener is in the handler of the exception of a failed long
\* poll, and no stop was requested.
C12_Witness ==
    /\ At(Listener, "ls_except")
    /\ Top(Listener).val \in {StatusError, ConnectionError}
    /\ ~stopping /\ ~stopped

\* ---- C13
\* C13: stop() made as the first call on a client, so before any start(),
\* ends with an error.
C13_StopBeforeStartRaises ==
    (call.op = "stop" /\ calls = 1 /\ spawned = 0) => call.outcome = "raise"

\* ---- C14
\* A get_value is inside the forced sync (line 76) it makes for ns.
InForcedSync(ns) ==
    \E t \in Threads : \E i \in 1..Len(stack[t]) :
        /\ i < Len(stack[t])
        /\ stack[t][i].pc = "gv_test"
        /\ stack[t][i].ns = ns

\* C14: every snapshot in the cache is the body of a successful fetch of its
\* namespace, at one of the ids the server has had; this is so whenever no
\* forced sync for the namespace is under way, so also after one that failed
\* or brought no change.
C14_SnapshotIsAFetchedBody ==
    \A ns \in DOMAIN cache :
        ~InForcedSync(ns)
            => \E n \in 1..srv_id[ns] : cache[ns] = Content(ns, n)

\* ---- C15
\* The call of the callback for the entry thread t is applying was given up:
\* the evaluation of its argument raised.
CallbackGivenUp(t, i) ==
    /\ i < Len(stack[t])
    /\ stack[t][i].pc = "lp_cbcall"
    /\ Len(stack'[t]) < i

\* C15: the callback is invoked for an entry only when the fetch of that
\* entry replaced the snapshot, and an entry whose fetch replaced the
\* snapshot gets its invocation.
C15_CallbackOnlyAfterApply ==
    [][\A t \in Threads :
          /\ (At(t, "lp_cbcall") /\ Stepped(t)) => Top(t).flag
          /\ \A i \in 1..Len(stack[t]) :
                 CallbackGivenUp(t, i) => ~stack[t][i].flag]_vars

\* ---- C16
\* Thread t raises out of the cycle whose _long_poll frame is its i-th one.
CycleAborts(t, i) ==
    /\ stack[t][i].pc \in {"lp_setid", "lp_cbcall"}
    /\ \/ t = Main /\ call.outcome = "running" /\ call'.outcome = "raise"
       \/ t \in Listeners /\ stack'[t][1].pc = "ls_except"

\* C16: when a cycle aborts while applying an entry, every entry before it
\* had its snapshot replaced and its id stored, no entry after it has its
\* snapshot or its id touched, and the entries are taken in the order of the
\* answer.
C16_EntriesAppliedInOrder ==
    [][\A t \in Threads : \A i \in 1..Len(stack[t]) :
          CycleAborts(t, i)
              => /\ \A k \in 1..Len(stack[t][i].done) : stack[t][i].done[k][3]
                 /\ \A k \in 2..Len(stack[t][i].todo) :
                        LET ns == stack[t][i].todo[k][1] IN
                        /\ (ns \in DOMAIN cache) = (ns \in DOMAIN cache')
                        /\ ns \in DOMAIN cache => cache'[ns] = cache[ns]
                        /\ notification_map'[ns] = notification_map[ns]]_vars

\* ---- C17
\* C17: at most one thread runs _listener at any time.
C17_OneBackgroundLoop ==
    Cardinality({l \in Listeners : Running(l)}) <= 1

\* ---- C18
\* C18: the step of a poll cycle that stores another id for a namespace
\* follows a fetch that replaced the snapshot of that namespace.
C18_IdAdvancesWithSnapshot ==
    [][\A t \in Threads :
          (/\ At(t, "lp_setid") /\ Stepped(t)
           /\ notification_map'[Top(t).ns] # notification_map[Top(t).ns])
              => Top(t).flag]_vars

\* ---- C19
\* C19: the id stored for a namespace never decreases (the server's ids
\* never do).
C19_StoredIdNeverDecreases ==
    [][\A ns \in DOMAIN notification_map :
          notification_map'[ns] >= notification_map[ns]]_vars

\* ---- C20
\* No call of Main is in progress and no listener is applying an entry.
Quiescent ==
    /\ ~Running(Main)
    /\ \A l \in Listeners : Len(stack[l]) <= 2

\* C20: once a get_conf_file and the replacements made beside it have
\* finished, the parsed-file entry of a namespace whose snapshot holds a
\* content is the parse of that content.
C20_ParsedEntryIsCurrent ==
    Quiescent
        => \A ns \in DOMAIN cache_file :
               (ns \in DOMAIN cache /\ ContentKey \in DOMAIN cache[ns])
                   => cache_file[ns] = loads(ns, cache[ns][ContentKey])

====
